---- MODULE Spec2Model ----
(***************************************************************************)
(* The harmony transcript parser of lm-chat (src/harmony_parser.py).       *)
(*                                                                         *)
(* A text is a sequence of atoms.  An atom is a short run of characters    *)
(* that no pattern of the parser can split: every punctuation character    *)
(* the patterns name ("<", "|", ">", ":", ",", "=", "{", "}", the quotes,   *)
(* the backslash, the whitespace characters) is an atom of its own, and a  *)
(* word atom ("role", "user", "call", "x", ...) is a run of \w characters. *)
(* The text an atom sequence stands for is the concatenation of its atoms, *)
(* so <<"<", "|", "start", "|", ">">> is the delimiter <|start|>.  The     *)
(* regular expressions are run on atoms exactly as Python's re runs them   *)
(* on characters: leftmost match, lazy or greedy quantifiers, finditer     *)
(* resuming after each match.                                              *)
(***************************************************************************)
EXTENDS Integers, Sequences, FiniteSets, TLC

VARIABLES text, pc, messages, raised,
          user_facing, reasoning, extracted_tool_calls,
          display_without, display_with,
          in_progress, frames, started,
          client_pc, harmony_mode, harmony_available, response, read,
          assistant_response, parser_calls, client_messages, turn,
          conversation_history, request_in_process, initial_connection,
          sleep_interval, total_time_slept

\* the results of the queries a caller runs on the parsed messages
query_vars == <<user_facing, reasoning, extracted_tool_calls,
                display_without, display_with>>

\* the calls in progress on one shared HarmonyParser instance: the state of
\* each caller, the local variable messages of each call, and the number of
\* calls started so far
shared_vars == <<in_progress, frames, started>>

\* the chat client: the position of the shell, args.harmony,
\* HARMONY_AVAILABLE, the lines of the HTTP response and how many of them
\* res has read, the text res has accumulated, the texts the parser was
\* called with in the current turn, the messages it returned, the number
\* of turns completed, the roles of the entries of conversation_history,
\* the flag request_in_process, args.initial_connection, and the locals i
\* and total_time_slept of _req in hundredths of a second
client_vars == <<client_pc, harmony_mode, harmony_available, response, read,
                 assistant_response, parser_calls, client_messages, turn,
                 conversation_history, request_in_process, initial_connection,
                 sleep_interval, total_time_slept>>

\* the variables of the other specifications, which a specification leaves
\* as they are
other_vars == <<shared_vars, client_vars>>

\* the variables of the single caller of parse_conversation and the queries
parser_vars == <<text, pc, messages, raised, query_vars>>

vars == <<parser_vars, shared_vars, client_vars>>

-----------------------------------------------------------------------------
(* Bounds of the input families drawn by Init.                             *)

MaxSpanChunks == 4

MaxHeaderChunks == 2

MaxContentItems == 3

MaxPayloadChunks == 3

MaxConversation == 2

MaxAttributes == 2

MaxValueChunks == 5

MaxNestedChunks == 3

-----------------------------------------------------------------------------
(* Sequence helpers.                                                       *)

Min(S) == CHOOSE m \in S : \A o \in S : m <= o

Max(S) == CHOOSE m \in S : \A o \in S : m >= o

RECURSIVE Flatten(_)
Flatten(ss) == IF ss = <<>> THEN <<>> ELSE Head(ss) \o Flatten(Tail(ss))

\* lit occurs in s at position i
LitAt(s, lit, i) ==
    /\ i >= 1
    /\ i + Len(lit) - 1 <= Len(s)
    /\ \A k \in 1..Len(lit) : s[i + k - 1] = lit[k]

\* lit occurs somewhere in s
Contains(s, lit) == \E i \in 1..Len(s) : LitAt(s, lit, i)

-----------------------------------------------------------------------------
(* Enumerations.                                                           *)

Roles == {"system", "developer", "user", "assistant", "tool"}

Channels == {"final", "analysis", "commentary"}

Tok(w) == <<"<", "|", w, "|", ">">>

START == Tok("start")

END == Tok("end")

MESSAGE == Tok("message")

CHANNEL == Tok("channel")

CONSTRAIN == Tok("constrain")

RETURN == Tok("return")

CALL == Tok("call")

SpecialTokens == {START, END, MESSAGE, CHANNEL, CONSTRAIN, RETURN, CALL}

-----------------------------------------------------------------------------
(* Character classes of the patterns, str.lower and str.strip, on atoms.   *)

LowerAtoms == {"role", "channel", "recipient", "start", "message", "end",
               "call", "constrain", "return", "system", "developer", "user",
               "assistant", "tool", "final", "analysis", "commentary",
               "bogus", "x", "y", "k", "n", "1"}

UpperAtoms == {"USER", "Tool", "FINAL", "Analysis"}

\* \w
IsWord(a) == a \in LowerAtoms \cup UpperAtoms

\* \s, and the characters str.strip() removes
IsSpace(a) == a \in {" ", "\n"}

\* str.lower() of one atom
LowerAtom(a) ==
    CASE a = "USER" -> "user"
      [] a = "Tool" -> "tool"
      [] a = "FINAL" -> "final"
      [] a = "Analysis" -> "analysis"
      [] OTHER -> a

\* the word unchanged: the lookup made case-sensitive
LowerOmitted(w) == w

Lower(w) == [i \in 1..Len(w) |-> LowerAtom(w[i])]

\* s with every leading and trailing atom of the class cls removed
StripSet(s, cls) ==
    LET keep == {i \in 1..Len(s) : s[i] \notin cls}
    IN IF keep = {} THEN <<>> ELSE SubSeq(s, Min(keep), Max(keep))

Strip(s) == StripSet(s, {" ", "\n"})

StartsWith(s, a) == Len(s) >= 1 /\ s[1] = a

EndsWith(s, a) == Len(s) >= 1 /\ s[Len(s)] = a

NotLt(a) == a # "<"

NotSpaceComma(a) == ~IsSpace(a) /\ a # ","

IsDigit(a) == a = "1"

\* membership of an atom in a character class of the patterns
InClass(cls, a) ==
    CASE cls = "\\w" -> IsWord(a)
      [] cls = "\\s" -> IsSpace(a)
      [] cls = "\\d" -> IsDigit(a)
      [] cls = "[^\\s,]" -> NotSpaceComma(a)

\* the end of the longest run of atoms of the class in s from position i on
RunEnd(s, i, cls) ==
    LET stops == {j \in i..Len(s) : ~InClass(cls, s[j])}
    IN IF stops = {} THEN Len(s) ELSE Min(stops) - 1

-----------------------------------------------------------------------------
(* message_pattern  <\|start\|>(.*?)<\|message\|>(.*?)<\|end\|>  (DOTALL)  *)

\* message_pattern with the end marker optional: an unclosed span runs to
\* the end of the text
MessageMatchAtOpenEnd(s, i) ==
    LET n == Len(s)
        ends(j) == {e \in (j + 5)..n : LitAt(s, END, e)}
        js == {j \in (i + 5)..n : LitAt(s, MESSAGE, j)}
    IN IF ~LitAt(s, START, i) \/ js = {}
       THEN [ok |-> FALSE]
       ELSE LET j == Min(js)
                e == IF ends(j) = {} THEN n + 1 ELSE Min(ends(j))
            IN [ok |-> TRUE,
                start |-> i,
                header |-> SubSeq(s, i + 5, j - 1),
                content |-> SubSeq(s, j + 5, e - 1),
                group0 |-> SubSeq(s, i, Min({n, e + 4})),
                next |-> e + 5]

\* The lazy header takes the first message marker after which the rest of
\* the pattern can still match; the lazy content then ends at the first end
\* marker.
MessageMatchAt(s, i) ==
    LET n == Len(s)
        ends(j) == {e \in (j + 5)..n : LitAt(s, END, e)}
        js == {j \in (i + 5)..n : LitAt(s, MESSAGE, j) /\ ends(j) # {}}
    IN IF ~LitAt(s, START, i) \/ js = {}
       THEN [ok |-> FALSE]
       ELSE LET j == Min(js)
                e == Min(ends(j))
            IN [ok |-> TRUE,
                start |-> i,
                header |-> SubSeq(s, i + 5, j - 1),
                content |-> SubSeq(s, j + 5, e - 1),
                group0 |-> SubSeq(s, i, e + 4),
                next |-> e + 5]

\* finditer: the leftmost match at or after pos, then on from its end
RECURSIVE MessageFindIter(_, _)
MessageFindIter(s, pos) ==
    LET starts == {i \in pos..Len(s) : MessageMatchAt(s, i).ok}
    IN IF starts = {} THEN <<>>
       ELSE LET m == MessageMatchAt(s, Min(starts))
            IN <<m>> \o MessageFindIter(s, m.next)

-----------------------------------------------------------------------------
(* Header patterns.                                                        *)

\* role:(\w+) and channel:(\w+): search returns the leftmost key followed by
\* at least one word character; the greedy group takes the whole word run.
WordAttrSearch(h, key) ==
    LET hits == {i \in 1..Len(h) : LitAt(h, <<key, ":">>, i)
                                   /\ i + 2 <= Len(h) /\ IsWord(h[i + 2])}
    IN IF hits = {} THEN [ok |-> FALSE]
       ELSE LET i == Min(hits)
            IN [ok |-> TRUE, group1 |-> SubSeq(h, i + 2, RunEnd(h, i + 2, "\\w"))]

RolePatternSearch(h) == WordAttrSearch(h, "role")

ChannelPatternSearch(h) == WordAttrSearch(h, "channel")

\* recipient:([^\s,]+)
RecipientPatternSearch(h) ==
    LET hits == {i \in 1..Len(h) : LitAt(h, <<"recipient", ":">>, i)
                                   /\ i + 2 <= Len(h) /\ NotSpaceComma(h[i + 2])}
    IN IF hits = {} THEN [ok |-> FALSE]
       ELSE LET i == Min(hits)
            IN [ok |-> TRUE,
                group1 |-> SubSeq(h, i + 2, RunEnd(h, i + 2, "[^\\s,]"))]

\* Role(value) and Channel(value): the enum lookup raises ValueError when the
\* value is not a member.
EnumLookup(members, w) ==
    IF Len(w) = 1 /\ w[1] \in members
    THEN [exc |-> "none", val |-> w[1]]
    ELSE [exc |-> "ValueError"]

\* An except clause catches the exceptions it names and their subclasses;
\* json.JSONDecodeError is a subclass of ValueError.
Catches(handlers, exc) ==
    \/ exc \in handlers
    \/ exc = "JSONDecodeError" /\ "ValueError" \in handlers

-----------------------------------------------------------------------------
(* tool_call_pattern  <\|call\|>([^<]+?)<\|([^<]+?)\|>  (DOTALL)           *)

\* Both groups are lazy: each takes the fewest characters other than "<"
\* (at least one) after which the rest of the pattern matches.
ToolCallMatchAt(s, i) ==
    LET n == Len(s)
        p == i + 5
        clean(a, b) == \A k \in a..b : NotLt(s[k])
        payloads(q) == {b \in 1..(n - q + 1) :
                           clean(q, q + b - 1) /\ LitAt(s, <<"|", ">">>, q + b)}
        names == {a \in 1..(n - p + 1) :
                     /\ clean(p, p + a - 1)
                     /\ LitAt(s, <<"<", "|">>, p + a)
                     /\ payloads(p + a + 2) # {}}
    IN IF ~LitAt(s, CALL, i) \/ names = {}
       THEN [ok |-> FALSE]
       ELSE LET a == Min(names)
                q == p + a + 2
                b == Min(payloads(q))
            IN [ok |-> TRUE,
                start |-> i,
                group1 |-> SubSeq(s, p, p + a - 1),
                group2 |-> SubSeq(s, q, q + b - 1),
                next |-> q + b + 2]

RECURSIVE ToolCallFindIter(_, _)
ToolCallFindIter(s, pos) ==
    LET starts == {i \in pos..Len(s) : ToolCallMatchAt(s, i).ok}
    IN IF starts = {} THEN <<>>
       ELSE LET m == ToolCallMatchAt(s, Min(starts))
            IN <<m>> \o ToolCallFindIter(s, m.next)

\* tool_call_pattern.sub('', s): s without its matches
RECURSIVE ToolCallSub(_, _)
ToolCallSub(s, pos) ==
    LET starts == {i \in pos..Len(s) : ToolCallMatchAt(s, i).ok}
    IN IF starts = {} THEN SubSeq(s, pos, Len(s))
       ELSE LET m == ToolCallMatchAt(s, Min(starts))
            IN SubSeq(s, pos, m.start - 1) \o ToolCallSub(s, m.next)

-----------------------------------------------------------------------------
(* constraint_pattern  <\|constrain\|>([^<]+)<\|return\|>  (DOTALL)        *)

\* The group is greedy: the longest run of characters other than "<" (at
\* least one) after which the return marker follows.
ConstraintMatchAt(s, i) ==
    LET n == Len(s)
        p == i + 5
        texts == {c \in 1..(n - p + 1) :
                     /\ \A k \in p..(p + c - 1) : NotLt(s[k])
                     /\ LitAt(s, RETURN, p + c)}
    IN IF ~LitAt(s, CONSTRAIN, i) \/ texts = {}
       THEN [ok |-> FALSE]
       ELSE LET c == Max(texts)
            IN [ok |-> TRUE,
                start |-> i,
                group1 |-> SubSeq(s, p, p + c - 1),
                next |-> p + c + 5]

\* search in place of finditer: the first match only
ConstraintFindFirst(s, pos) ==
    LET starts == {i \in pos..Len(s) : ConstraintMatchAt(s, i).ok}
    IN IF starts = {} THEN <<>> ELSE <<ConstraintMatchAt(s, Min(starts))>>

RECURSIVE ConstraintFindIter(_, _)
ConstraintFindIter(s, pos) ==
    LET starts == {i \in pos..Len(s) : ConstraintMatchAt(s, i).ok}
    IN IF starts = {} THEN <<>>
       ELSE LET m == ConstraintMatchAt(s, Min(starts))
            IN <<m>> \o ConstraintFindIter(s, m.next)

\* constraint_pattern.sub('', s)
RECURSIVE ConstraintSub(_, _)
ConstraintSub(s, pos) ==
    LET starts == {i \in pos..Len(s) : ConstraintMatchAt(s, i).ok}
    IN IF starts = {} THEN SubSeq(s, pos, Len(s))
       ELSE LET m == ConstraintMatchAt(s, Min(starts))
            IN SubSeq(s, pos, m.start - 1) \o ConstraintSub(s, m.next)

\* re.sub(r'\s+', ' ', s): every maximal whitespace run becomes one space
RECURSIVE CollapseWhitespace(_)
CollapseWhitespace(s) ==
    IF s = <<>> THEN <<>>
    ELSE IF IsSpace(s[1])
         THEN <<" ">> \o CollapseWhitespace(SubSeq(s, RunEnd(s, 1, "\\s") + 1, Len(s)))
         ELSE <<s[1]>> \o CollapseWhitespace(Tail(s))

-----------------------------------------------------------------------------
(* json.loads, on the JSON the atoms can spell: objects, strings with the  *)
(* escapes \" \\ \/, and numbers made of the digit atom.  No atom sequence *)
(* of the inputs spells true, false, null, NaN, Infinity, an array or      *)
(* another escape, so any other text is a decode error.  A JSON value is   *)
(* [t |-> "str", s |-> atoms], [t |-> "num", s |-> digits] or              *)
(* [t |-> "obj", o |-> entries], the entries of a dict being the sequence  *)
(* of its [k, v] items in insertion order.                                 *)

JsonFail == [ok |-> FALSE]


\* d[k] = v on a Python dict
DictSet(d, k, v) ==
    IF \E i \in 1..Len(d) : d[i].k = k
    THEN [i \in 1..Len(d) |-> IF d[i].k = k THEN [k |-> k, v |-> v] ELSE d[i]]
    ELSE Append(d, [k |-> k, v |-> v])

PyStr(s) == [t |-> "str", s |-> s]

PyDict(entries) == [t |-> "obj", o |-> entries]

\* the first position at or after i that holds no JSON whitespace
SkipWs(s, i) ==
    LET stops == {j \in i..Len(s) : ~IsSpace(s[j])}
    IN IF stops = {} THEN Len(s) + 1 ELSE Min(stops)

\* py_scanstring (strict): position i follows the opening quote
RECURSIVE ScanString(_, _, _)
ScanString(s, i, acc) ==
    IF i > Len(s) THEN JsonFail
    ELSE IF s[i] = "\"" THEN [ok |-> TRUE, val |-> PyStr(acc), next |-> i + 1]
    ELSE IF s[i] = "\n" THEN JsonFail
    ELSE IF s[i] = "\\"
         THEN IF i + 1 <= Len(s) /\ s[i + 1] \in {"\"", "\\", "/"}
              THEN ScanString(s, i + 2, Append(acc, s[i + 1]))
              ELSE JsonFail
         ELSE ScanString(s, i + 1, Append(acc, s[i]))

RECURSIVE ScanOnce(_, _)
RECURSIVE JsonPairs(_, _, _)

\* JSONObject after a value v of the pair with key key: the closing brace,
\* or a comma and the quote that opens the next key
JsonPairsAfterValue(s, key, v, acc) ==
    IF ~v.ok THEN JsonFail
    ELSE LET d == SkipWs(s, v.next)
         IN IF d > Len(s) THEN JsonFail
            ELSE IF s[d] = "}"
                 THEN [ok |-> TRUE,
                       val |-> PyDict(DictSet(acc, key.val.s, v.val)),
                       next |-> d + 1]
            ELSE IF s[d] # "," THEN JsonFail
            ELSE IF SkipWs(s, d + 1) > Len(s) \/ s[SkipWs(s, d + 1)] # "\"" THEN JsonFail
            ELSE JsonPairs(s, SkipWs(s, d + 1) + 1, DictSet(acc, key.val.s, v.val))

\* JSONObject after the key key: the colon and the value
JsonPairsAfterKey(s, key, acc) ==
    IF ~key.ok THEN JsonFail
    ELSE LET c == SkipWs(s, key.next)
         IN IF c > Len(s) \/ s[c] # ":" THEN JsonFail
            ELSE JsonPairsAfterValue(s, key, ScanOnce(s, SkipWs(s, c + 1)), acc)

\* JSONObject: one "key": value pair and what follows it; position i follows
\* the quote that opens the key
JsonPairs(s, i, acc) == JsonPairsAfterKey(s, ScanString(s, i, <<>>), acc)

\* JSONObject: position i follows the opening brace
JsonObject(s, i) ==
    LET j == SkipWs(s, i)
    IN IF j > Len(s) THEN JsonFail
       ELSE IF s[j] = "}" THEN [ok |-> TRUE, val |-> PyDict(<<>>), next |-> j + 1]
       ELSE IF s[j] # "\"" THEN JsonFail
       ELSE JsonPairs(s, j + 1, <<>>)

\* scan_once: one JSON value at position i
ScanOnce(s, i) ==
    IF i > Len(s) THEN JsonFail
    ELSE IF s[i] = "\"" THEN ScanString(s, i + 1, <<>>)
    ELSE IF s[i] = "{" THEN JsonObject(s, i + 1)
    ELSE IF IsDigit(s[i])
         THEN LET e == RunEnd(s, i, "\\d")
              IN [ok |-> TRUE, val |-> [t |-> "num", s |-> SubSeq(s, i, e)], next |-> e + 1]
         ELSE JsonFail

\* json.loads(s): one value, whitespace around it, nothing else
JsonDecode(s, r) ==
    IF r.ok /\ SkipWs(s, r.next) > Len(s)
    THEN [exc |-> "none", val |-> r.val]
    ELSE [exc |-> "JSONDecodeError"]

JsonLoads(s) == JsonDecode(s, ScanOnce(s, SkipWs(s, 1)))

-----------------------------------------------------------------------------
(* HarmonyParser: the content analyzer.                                    *)

\* str.split(sep)
RECURSIVE Split(_, _)
Split(s, sep) ==
    LET hits == {i \in 1..Len(s) : s[i] = sep}
    IN IF hits = {} THEN <<s>>
       ELSE <<SubSeq(s, 1, Min(hits) - 1)>>
            \o Split(SubSeq(s, Min(hits) + 1, Len(s)), sep)

\* value.strip().strip('"').strip("'")
StripValue(value) == StripSet(StripSet(Strip(value), {"\""}), {"'"})

\* the loop of _parse_simple_params over the comma-separated parts
RECURSIVE SimpleParamsLoop(_, _)
SimpleParamsLoop(parts, params) ==
    IF parts = <<>> THEN params
    ELSE LET part == Head(parts)
             eqs == {i \in 1..Len(part) : part[i] = "="}
         IN IF eqs = {} THEN SimpleParamsLoop(Tail(parts), params)
            ELSE LET key == SubSeq(part, 1, Min(eqs) - 1)
                     value == SubSeq(part, Min(eqs) + 1, Len(part))
                 IN SimpleParamsLoop(Tail(parts),
                        DictSet(params, Strip(key), PyStr(StripValue(value))))

\* _parse_simple_params
_parse_simple_params(params_text) ==
    PyDict(SimpleParamsLoop(Split(params_text, ","), <<>>))

\* the body of the try statement of _parse_tool_calls: the parameters, or
\* the exception a decode raises
\* the quoted branch storing the decoded string itself as the parameters
DecodeJsonStringBare(json_string) ==
    IF json_string.exc # "none" THEN json_string
    ELSE IF json_string.val.t = "str" /\ StartsWith(json_string.val.s, "{")
         THEN JsonLoads(json_string.val.s)
         ELSE [exc |-> "none", val |-> json_string.val]

\* the quoted branch, after json_string = json.loads(params_text)
DecodeJsonString(json_string) ==
    IF json_string.exc # "none" THEN json_string
    ELSE IF json_string.val.t = "str" /\ StartsWith(json_string.val.s, "{")
         THEN JsonLoads(json_string.val.s)
         ELSE [exc |-> "none",
               val |-> PyDict(<<[k |-> <<"value">>, v |-> json_string.val]>>)]

DecodeParameters(params_text) ==
    IF StartsWith(params_text, "{") /\ EndsWith(params_text, "}")
    THEN JsonLoads(params_text)
    ELSE IF StartsWith(params_text, "\"") /\ EndsWith(params_text, "\"")
         THEN DecodeJsonString(JsonLoads(params_text))
         ELSE [exc |-> "none", val |-> _parse_simple_params(params_text)]

\* an except clause that names the wrong exception
ToolCallHandlersKeyError == {"KeyError"}

\* except (json.JSONDecodeError, ValueError)
ToolCallHandlers == {"JSONDecodeError", "ValueError"}

\* the parameters stored when the decode raised a caught exception
RawParameters(params_text) == PyDict(<<[k |-> <<"raw">>, v |-> PyStr(params_text)]>>)

\* one iteration of the loop of _parse_tool_calls: the record appended, or
\* the exception that leaves the loop
\* the record appended after the try statement, r being the outcome of its
\* body
ToolCallRecord(tool_name, params_text, r) ==
    IF r.exc = "none"
    THEN [exc |-> "none", val |-> [name |-> tool_name, parameters |-> r.val]]
    ELSE IF Catches(ToolCallHandlers, r.exc)
         THEN [exc |-> "none",
               val |-> [name |-> tool_name, parameters |-> RawParameters(params_text)]]
         ELSE [exc |-> r.exc]

ToolCallOf(match) ==
    ToolCallRecord(Strip(match.group1), Strip(match.group2),
                   DecodeParameters(Strip(match.group2)))

\* the loop with the append inside the try: a call whose payload fails to
\* decode is skipped
RECURSIVE ToolCallsLoopSkipping(_, _)
ToolCallsLoopSkipping(matches, tool_calls) ==
    IF matches = <<>> THEN [exc |-> "none", val |-> tool_calls]
    ELSE LET r == DecodeParameters(Strip(Head(matches).group2))
         IN IF r.exc # "none" THEN ToolCallsLoopSkipping(Tail(matches), tool_calls)
            ELSE ToolCallsLoopSkipping(Tail(matches),
                     Append(tool_calls, [name |-> Strip(Head(matches).group1),
                                         parameters |-> r.val]))

RECURSIVE ToolCallsLoop(_, _)

\* the rest of the loop after the iteration with outcome r
ToolCallsNext(matches, tool_calls, r) ==
    IF r.exc # "none" THEN r
    ELSE ToolCallsLoop(Tail(matches), Append(tool_calls, r.val))

\* the loop of _parse_tool_calls over the matches of tool_call_pattern
ToolCallsLoop(matches, tool_calls) ==
    IF matches = <<>> THEN [exc |-> "none", val |-> tool_calls]
    ELSE ToolCallsNext(matches, tool_calls, ToolCallOf(Head(matches)))

\* _parse_tool_calls
_parse_tool_calls(content) == ToolCallsLoop(ToolCallFindIter(content, 1), <<>>)

\* _parse_constraints
_parse_constraints(content) ==
    LET ms == ConstraintFindIter(content, 1)
    IN [i \in 1..Len(ms) |-> Strip(ms[i].group1)]

\* cleaning without the whitespace step
_clean_content_no_collapse(content) == Strip(ConstraintSub(ToolCallSub(content, 1), 1))

\* _clean_content
_clean_content(content) ==
    Strip(CollapseWhitespace(ConstraintSub(ToolCallSub(content, 1), 1)))

-----------------------------------------------------------------------------
(* HarmonyParser: the message assembler and parse_conversation.            *)

None == [some |-> FALSE]

Some(v) == [some |-> TRUE, val |-> v]

\* an except clause that names the wrong exception
ChannelHandlersKeyError == {"KeyError"}

\* except ValueError, around Role(...) and around Channel(...)
RoleHandlers == {"ValueError"}

ChannelHandlers == {"ValueError"}

\* the channel of _parse_single_message: the member, "None", or the
\* exception that escapes
ChannelOf(header) ==
    LET channel_match == ChannelPatternSearch(header)
    IN IF ~channel_match.ok THEN [exc |-> "none", val |-> "None"]
       ELSE LET c == EnumLookup(Channels, Lower(channel_match.group1))
            IN IF c.exc = "none" THEN c
               ELSE IF Catches(ChannelHandlers, c.exc)
                    THEN [exc |-> "none", val |-> "None"]
                    ELSE c

RecipientOf(header) ==
    LET recipient_match == RecipientPatternSearch(header)
    IN IF recipient_match.ok THEN Some(recipient_match.group1) ELSE None

\* the HarmonyMessage built at the end of _parse_single_message, or the
\* exception that escaped on the way
AssembleMessage(role, channel, header, content, tool_calls) ==
    IF channel.exc # "none" THEN [exc |-> channel.exc]
    ELSE IF tool_calls.exc # "none" THEN [exc |-> tool_calls.exc]
    ELSE [exc |-> "none",
          val |-> Some([role |-> role,
                        content |-> _clean_content(content),
                        channel |-> channel.val,
                        recipient |-> RecipientOf(header),
                        tool_calls |-> tool_calls.val,
                        constraints |-> _parse_constraints(content),
                        raw_content |-> <<>>])]

\* _parse_single_message: Some(message), None, or the exception that escapes
_parse_single_message(header, content) ==
    LET role_match == RolePatternSearch(header)
    IN IF ~role_match.ok THEN [exc |-> "none", val |-> None]
       ELSE LET role == EnumLookup(Roles, Lower(role_match.group1))
            IN IF role.exc # "none"
               THEN IF Catches(RoleHandlers, role.exc)
                    THEN [exc |-> "none", val |-> None]
                    ELSE [exc |-> role.exc]
               ELSE AssembleMessage(role.val, ChannelOf(header), header, content,
                                    _parse_tool_calls(content))

RECURSIVE ConversationLoop(_, _)

\* the loop continuation without the assignment to raw_content
ConversationNextNoRaw(matches, msgs, message) ==
    IF message.exc # "none" THEN [exc |-> message.exc]
    ELSE IF message.val.some
         THEN ConversationLoop(Tail(matches), Append(msgs, message.val.val))
         ELSE ConversationLoop(Tail(matches), msgs)

\* the rest of the loop after the iteration with outcome message
ConversationNext(matches, msgs, message) ==
    IF message.exc # "none" THEN [exc |-> message.exc]
    ELSE IF message.val.some
         THEN ConversationLoop(Tail(matches),
                  Append(msgs, [message.val.val EXCEPT !.raw_content = Head(matches).group0]))
         ELSE ConversationLoop(Tail(matches), msgs)

\* the loop of parse_conversation over the matches of message_pattern
ConversationLoop(matches, msgs) ==
    IF matches = <<>> THEN [exc |-> "none", val |-> msgs]
    ELSE ConversationNext(matches, msgs,
             _parse_single_message(Strip(Head(matches).header),
                                   Strip(Head(matches).content)))

\* parse_conversation
parse_conversation(t) == ConversationLoop(MessageFindIter(t, 1), <<>>)

-----------------------------------------------------------------------------
(* HarmonyMessage predicates and the queries of HarmonyParser.             *)

\* the predicate without the role test
is_user_facing_any_role(m) == m.channel \in {"final", "None"}

\* the channel test dropped: every message that is not a tool message
is_user_facing_any_channel(m) == m.role # "tool"

\* HarmonyMessage.is_reasoning
is_reasoning(m) == m.channel = "analysis"

\* HarmonyMessage.is_user_facing
is_user_facing(m) == m.channel \in {"final", "None"} /\ m.role # "tool"

\* a filter that stops at the first message it rejects
RECURSIVE extract_reasoning_prefix(_)
extract_reasoning_prefix(msgs) ==
    IF msgs = <<>> \/ ~is_reasoning(Head(msgs)) THEN <<>>
    ELSE <<Head(msgs)>> \o extract_reasoning_prefix(Tail(msgs))

\* extract_reasoning: [msg for msg in messages if msg.is_reasoning()]
extract_reasoning(msgs) == SelectSeq(msgs, is_reasoning)

\* extract_user_facing
extract_user_facing(msgs) == SelectSeq(msgs, is_user_facing)

\* the records extract_tool_calls appends for one message
ToolCallRecordsOf(message) ==
    [j \in 1..Len(message.tool_calls) |->
        [message_role |-> message.role,
         message_channel |-> IF message.channel # "None" THEN message.channel ELSE "None",
         tool_name |-> message.tool_calls[j].name,
         parameters |-> message.tool_calls[j].parameters]]

\* the outer loop taking the last message first
RECURSIVE ExtractToolCallsReversed(_, _)
ExtractToolCallsReversed(msgs, tool_calls) ==
    IF msgs = <<>> THEN tool_calls
    ELSE ExtractToolCallsReversed(SubSeq(msgs, 1, Len(msgs) - 1),
                                  tool_calls \o ToolCallRecordsOf(msgs[Len(msgs)]))

\* the outer loop of extract_tool_calls
RECURSIVE ExtractToolCallsLoop(_, _)
ExtractToolCallsLoop(msgs, tool_calls) ==
    IF msgs = <<>> THEN tool_calls
    ELSE ExtractToolCallsLoop(Tail(msgs), tool_calls \o ToolCallRecordsOf(Head(msgs)))

\* extract_tool_calls
extract_tool_calls(msgs) == ExtractToolCallsLoop(msgs, <<>>)

\* str.capitalize() of a role value
Capitalize(w) ==
    CASE w = "system" -> "System"
      [] w = "developer" -> "Developer"
      [] w = "user" -> "User"
      [] w = "assistant" -> "Assistant"
      [] w = "tool" -> "Tool"

\* repr of a str: single quotes unless the text holds a single quote and no
\* double quote; the quote in use, the backslash and the newline are escaped
ReprQuote(s) ==
    IF (\E i \in 1..Len(s) : s[i] = "'") /\ ~(\E i \in 1..Len(s) : s[i] = "\"")
    THEN "\"" ELSE "'"

RECURSIVE ReprChars(_, _)
ReprChars(s, q) ==
    IF s = <<>> THEN <<>>
    ELSE (CASE Head(s) = "\\" -> <<"\\", "\\">>
            [] Head(s) = "\n" -> <<"\\", "n">>
            [] Head(s) = q -> <<"\\", q>>
            [] OTHER -> <<Head(s)>>) \o ReprChars(Tail(s), q)

ReprStr(s) == <<ReprQuote(s)>> \o ReprChars(s, ReprQuote(s)) \o <<ReprQuote(s)>>

RECURSIVE PyRepr(_)
RECURSIVE ReprItems(_)

\* the items of a dict, 'key': value, separated by a comma and a space
ReprItems(entries) ==
    IF entries = <<>> THEN <<>>
    ELSE ReprStr(Head(entries).k) \o <<":", " ">> \o PyRepr(Head(entries).v)
         \o (IF Len(entries) > 1 THEN <<",", " ">> ELSE <<>>)
         \o ReprItems(Tail(entries))

\* repr of a decoded value, as the f-string of the parameters line prints it
PyRepr(v) ==
    CASE v.t = "str" -> ReprStr(v.s)
      [] v.t = "num" -> v.s
      [] v.t = "obj" -> <<"{">> \o ReprItems(v.o) \o <<"}">>

\* str.join
RECURSIVE Join(_, _)
Join(sep, lines) ==
    IF lines = <<>> THEN <<>>
    ELSE IF Len(lines) = 1 THEN lines[1]
    ELSE lines[1] \o sep \o Join(sep, Tail(lines))

\* role_display of format_for_display
RoleDisplay(message) ==
    <<Capitalize(message.role)>>
    \o (IF message.channel # "None" THEN <<" ", "(", message.channel, ")">> ELSE <<>>)
    \o (IF message.recipient.some /\ message.recipient.val # <<>>
        THEN <<" ", "-", ">", " ">> \o message.recipient.val ELSE <<>>)

\* the lines format_for_display appends for one tool call
ToolCallLines(tool_call) ==
    << <<" ", " ", "Tool", " ", "Call", ":", " ">> \o tool_call.name >>
    \o (IF tool_call.parameters.o # <<>>
        THEN << <<" ", " ", " ", " ", "Parameters", ":", " ">>
                \o PyRepr(tool_call.parameters) >>
        ELSE <<>>)

RECURSIVE ToolCallsLines(_)
ToolCallsLines(tool_calls) ==
    IF tool_calls = <<>> THEN <<>>
    ELSE ToolCallLines(Head(tool_calls)) \o ToolCallsLines(Tail(tool_calls))

\* the lines format_for_display appends for one message it renders
MessageLines(message) ==
    << RoleDisplay(message) \o <<":", " ">> \o message.content >>
    \o ToolCallsLines(message.tool_calls)

\* the loop without the continue: reasoning is rendered whatever the flag
RECURSIVE FormatLoopNoSkip(_, _, _)
FormatLoopNoSkip(msgs, include_reasoning, output) ==
    IF msgs = <<>> THEN output
    ELSE FormatLoopNoSkip(Tail(msgs), include_reasoning, output \o MessageLines(Head(msgs)))

\* the flag read the wrong way round: reasoning is skipped when it is asked for
RECURSIVE FormatLoopInverted(_, _, _)
FormatLoopInverted(msgs, include_reasoning, output) ==
    IF msgs = <<>> THEN output
    ELSE IF include_reasoning /\ is_reasoning(Head(msgs))
         THEN FormatLoopInverted(Tail(msgs), include_reasoning, output)
         ELSE FormatLoopInverted(Tail(msgs), include_reasoning,
                                 output \o MessageLines(Head(msgs)))

\* the loop of format_for_display
RECURSIVE FormatLoop(_, _, _)
FormatLoop(msgs, include_reasoning, output) ==
    IF msgs = <<>> THEN output
    ELSE IF ~include_reasoning /\ is_reasoning(Head(msgs))
         THEN FormatLoop(Tail(msgs), include_reasoning, output)
         ELSE FormatLoop(Tail(msgs), include_reasoning, output \o MessageLines(Head(msgs)))

\* format_for_display: "\n\n".join(output)
format_for_display(msgs, include_reasoning) ==
    Join(<<"\n", "\n">>, FormatLoop(msgs, include_reasoning, <<>>))

\* len() of a str, in characters
RECURSIVE StrLenBetween(_, _, _)
StrLenBetween(s, a, b) ==
    IF a > b THEN 0
    ELSE IF a = b THEN Len(s[a])
    ELSE StrLenBetween(s, a, (a + b) \div 2) + StrLenBetween(s, (a + b) \div 2 + 1, b)

StrLen(s) == StrLenBetween(s, 1, Len(s))

-----------------------------------------------------------------------------
(* The inputs.  Every family is a set of texts built by concatenating      *)
(* chunks; the parser is run on the atoms of the concatenation.            *)

SeqsUpTo(S, n) == UNION {[1..k -> S] : k \in 0..n}

Texts(chunks, n) == {Flatten(c) : c \in SeqsUpTo(chunks, n)}

RoleUser == <<"role", ":", "user">>

RoleAssistant == <<"role", ":", "assistant">>

\* span level: markers in any order
SpanChunks == {START, START \o RoleUser, MESSAGE, END, <<"x">>}

SpanTexts == Texts(SpanChunks, MaxSpanChunks)

\* header level: one span with an arbitrary header, alone or followed by a
\* well-formed span
HeaderChunks ==
    {<<"role", ":">>, RoleUser \o <<",">>, <<"role", ":", "USER">>,
     <<"role", ":", "bogus">>,
     <<"channel", ":", "final">>, <<"channel", ":", "FINAL">>,
     <<"channel", ":", "bogus">>, <<"recipient", ":", "x">>, <<",">>, <<"x">>}

ToolSpan == START \o <<"role", ":", "tool">> \o MESSAGE \o <<"y">> \o END

HeaderTexts ==
    {START \o h \o MESSAGE \o <<"x">> \o END \o tail :
        h \in Texts(HeaderChunks, MaxHeaderChunks), tail \in {<<>>, ToolSpan}}

\* content level: one assistant span whose content mixes text, whitespace,
\* tool-call tokens, constraint tokens and stray markers
ToolCallToken(name, payload) == CALL \o name \o <<"<", "|">> \o payload \o <<"|", ">">>

ConstraintToken(t) == CONSTRAIN \o t \o RETURN

ContentItems ==
    {<<"x">>, <<"\n">>,
     ToolCallToken(<<"n">>, <<"{", "\"", "k", "\"", ":", "1", "}">>),
     ToolCallToken(<<" ", "x">>, <<"{", "k", "}">>),
     ConstraintToken(<<"x">>), ConstraintToken(<<" ", "y", " ">>),
     CALL \o <<"n">>, CONSTRAIN}

ContentTexts ==
    {START \o RoleAssistant \o MESSAGE \o c \o END :
        c \in Texts(ContentItems, MaxContentItems)}

\* role level: every role word on a short content
RoleWords == Roles \cup {"USER", "Tool", "bogus"}

RoleTexts ==
    {START \o <<"role", ":", r>> \o MESSAGE \o c \o END :
        r \in RoleWords, c \in Texts(ContentItems, 1)}

\* payload level: one tool call with an arbitrary payload
PayloadChunks ==
    {<<"{">>, <<"}">>, <<"\"">>, <<"\"", "k", "\"", ":", "1">>, <<"k">>,
     <<"=">>, <<",">>, <<"\\">>}

PayloadTexts ==
    {START \o RoleAssistant \o MESSAGE \o ToolCallToken(<<"n">>, p) \o END :
        p \in Texts(PayloadChunks, MaxPayloadChunks)}

\* channel level: every role with every channel, and with none
HeaderOf(role, channel) ==
    <<"role", ":", role>>
    \o (IF channel = "None" THEN <<>> ELSE <<",", "channel", ":", channel>>)

Span(header, content) == START \o header \o MESSAGE \o content \o END

ChannelTexts ==
    {Span(HeaderOf(r, c), <<"x">>) : r \in Roles, c \in Channels \cup {"None"}}

\* conversation level: several messages of different roles and channels,
\* some with tool calls
ConversationSpans ==
    {Span(HeaderOf("user", "None"), <<"x">>),
     Span(HeaderOf("assistant", "analysis"), <<"x">>),
     Span(HeaderOf("assistant", "final"),
          <<"y">> \o ToolCallToken(<<"n">>, <<"{", "\"", "k", "\"", ":", "1", "}">>)),
     Span(HeaderOf("assistant", "commentary") \o <<",", "recipient", ":", "x">>,
          ToolCallToken(<<"n">>, <<"k">>) \o ToolCallToken(<<"x">>, <<"k", "=", "\"">>)),
     Span(HeaderOf("tool", "final"), <<"y">>),
     Span(HeaderOf("tool", "analysis"), ToolCallToken(<<"x">>, <<"{", "k", "}">>))}

ConversationTexts == Texts(ConversationSpans, MaxConversation)

\* dialogue level: one message more, of short messages without tool calls:
\* a user message, a reasoning message and a tool result
DialogueSpans ==
    {Span(HeaderOf("user", "None"), <<"x">>),
     Span(HeaderOf("assistant", "analysis"), <<"x">>),
     Span(HeaderOf("tool", "final"), <<"y">>)}

DialogueTexts == Texts(DialogueSpans, MaxConversation + 1)

\* attribute level: one span whose header is a comma-separated list of
\* key:value attributes with the keys role, channel and recipient
Attributes ==
    {RoleUser, <<"channel", ":", "final">>, <<"recipient", ":", "x">>,
     <<"recipient", ":", "role", ":", "tool">>}

AttributeHeaders ==
    {Join(<<",">>, attrs) : attrs \in SeqsUpTo(Attributes, MaxAttributes)}

AttributeTexts == {Span(h, <<"x">>) : h \in AttributeHeaders}

\* value level: one tool call with the payload k=V, the value V a word
\* inside any number of quotes
ValueChunks == {<<"x">>, <<"\"">>}

KeyValueTexts ==
    {START \o RoleAssistant \o MESSAGE \o ToolCallToken(<<"n">>, <<"k", "=">> \o v) \o END :
        v \in Texts(ValueChunks, MaxValueChunks)}

\* nesting level: one assistant span whose content puts a constraint token
\* between the halves of another token
NestedChunks ==
    {CONSTRAIN, ConstraintToken(<<"x">>), <<"y">> \o RETURN}

NestedTexts ==
    {START \o RoleAssistant \o MESSAGE \o c \o END :
        c \in Texts(NestedChunks, MaxNestedChunks)}

Inputs ==
    SpanTexts \cup HeaderTexts \cup ContentTexts \cup RoleTexts \cup PayloadTexts
    \cup ChannelTexts \cup ConversationTexts \cup DialogueTexts
    \cup AttributeTexts \cup KeyValueTexts \cup NestedTexts

-----------------------------------------------------------------------------
(* Calls of parse_conversation on one shared HarmonyParser instance.       *)
(* __init__ compiles the patterns and nothing assigns an attribute of the  *)
(* instance afterwards; parse_conversation keeps its list of messages and  *)
(* its match iterator in local variables of the call.                      *)

MaxCalls == 3

MaxSharedSpans == 2

Callers == {1, 2}

\* the instance, were the list of messages an attribute of it
ON_INSTANCE == 0

Frames == {ON_INSTANCE} \cup Callers

\* the list of messages kept on the instance, shared by every call
FrameOnInstance(c) == ON_INSTANCE

\* where a call of caller c keeps messages: messages = [] is a local variable
Frame(c) == c

\* a caller that has not called yet
IdleCall ==
    [pc |-> "idle", text |-> <<>>, matches |-> <<>>, result |-> <<>>,
     raised |-> "none", interleaved |-> FALSE, earlier |-> 0]

NoCalls ==
    /\ in_progress = [c \in Callers |-> IdleCall]
    /\ frames = [f \in Frames |-> <<>>]
    /\ started = 0

\* the texts the callers pass: a message with a tool call and a span whose
\* header names no role
SharedSpans ==
    {Span(HeaderOf("assistant", "analysis"), ToolCallToken(<<"n">>, <<"k">>)),
     Span(<<"x">>, <<"y">>)}

SharedTexts == Texts(SharedSpans, MaxSharedSpans)

\* self.message_pattern.finditer(text) of every text, computed once
SharedMatches == [t \in SharedTexts |-> MessageFindIter(t, 1)]

\* the list of messages after one iteration with outcome message
IterationAppend(match, msgs, message) ==
    IF message.exc = "none" /\ message.val.some
    THEN Append(msgs, [message.val.val EXCEPT !.raw_content = match.group0])
    ELSE msgs

\* one iteration of the loop of parse_conversation
Iteration(match, msgs) ==
    IterationAppend(match, msgs,
        _parse_single_message(Strip(match.header), Strip(match.content)))

\* the exception one iteration ends with, or "none"
IterationRaises(match) ==
    _parse_single_message(Strip(match.header), Strip(match.content)).exc

\* the other callers, marked as having run together with a step of caller c
MarkInterleaved(c) ==
    [d \in Callers |->
        IF d # c /\ in_progress[d].pc = "running"
        THEN [in_progress[d] EXCEPT !.interleaved = TRUE]
        ELSE in_progress[d]]

-----------------------------------------------------------------------------
(* The chat client: RamaLamaShell sends the conversation, res reads the    *)
(* streamed response line by line and, at the end of the stream, hands the *)
(* accumulated text to the parser.                                         *)

MaxLines == 3

MaxTurns == 2

\* the times of _req are counted in hundredths of a second, the first
\* interval i = 0.01 being one unit
PerSecond == 100

\* i = 0.01
FIRST_INTERVAL == 1

\* the cap of i = min(i * 2, 0.1)
LONGEST_INTERVAL == 10

\* max_timeout = 30 if initial_connection else 16, in seconds
TIMEOUT_INITIAL_CONNECTION == 30

TIMEOUT == 16

max_timeout(initial) ==
    (IF initial THEN TIMEOUT_INITIAL_CONNECTION ELSE TIMEOUT) * PerSecond

\* the interval without the cap
NextIntervalUncapped(interval) == interval * 2

\* i = min(i * 2, 0.1)
NextInterval(interval) ==
    IF interval * 2 < LONGEST_INTERVAL THEN interval * 2 ELSE LONGEST_INTERVAL

\* the client is not running
NoClient ==
    /\ client_pc = "off"
    /\ harmony_mode = FALSE
    /\ harmony_available = FALSE
    /\ response = <<>>
    /\ read = 0
    /\ assistant_response = <<>>
    /\ parser_calls = <<>>
    /\ client_messages = <<>>
    /\ turn = 0
    /\ conversation_history = <<>>
    /\ request_in_process = FALSE
    /\ initial_connection = FALSE
    /\ sleep_interval = 0
    /\ total_time_slept = 0

\* the content strings of the deltas: the two halves of a message and ""
ContentPieces ==
    {START \o RoleUser \o MESSAGE \o <<"x">>, END, <<>>}

\* the lines of a response: a "data: {" line whose delta has a content, one
\* whose delta has none, one that json.loads or the subscripts reject, and
\* a line that does not start with "data: {"
Lines ==
    {[kind |-> "delta", has_content |-> TRUE, content |-> c] : c \in ContentPieces}
    \cup {[kind |-> "delta", has_content |-> FALSE, content |-> <<>>],
          [kind |-> "malformed", has_content |-> FALSE, content |-> <<>>],
          [kind |-> "other", has_content |-> FALSE, content |-> <<>>]}

\* the responses: a line that makes res raise is the last line res is given
Responses ==
    {r \in SeqsUpTo(Lines, MaxLines) :
        \A k \in 1..(Len(r) - 1) : r[k].kind # "malformed"}

\* the guard without args.harmony
ParserInvokedAnyMode(mode, available, accumulated) ==
    available /\ accumulated # <<>>

\* if harmony_mode and HARMONY_AVAILABLE and assistant_response:
ParserInvoked(mode, available, accumulated) ==
    mode /\ available /\ accumulated # <<>>

\* what one line adds to assistant_response
Accepted(line) ==
    IF line.kind = "delta" /\ line.has_content /\ line.content # <<>>
    THEN line.content
    ELSE <<>>

\* messages of the try block: the parser's result, nothing if it raises
MessagesOrNone(r) == IF r.exc = "none" THEN r.val ELSE <<>>

-----------------------------------------------------------------------------
(* The state machine: a caller holds a text and calls parse_conversation.  *)

Init ==
    /\ text \in Inputs
    /\ pc = "start"
    /\ messages = <<>>
    /\ raised = "none"
    /\ user_facing = <<>>
    /\ reasoning = <<>>
    /\ extracted_tool_calls = <<>>
    /\ display_without = <<>>
    /\ display_with = <<>>
    /\ NoCalls
    /\ NoClient

\* messages = parser.parse_conversation(text)
ParseConversation ==
    /\ pc = "start"
    /\ LET r == parse_conversation(text)
       IN /\ raised' = r.exc
          /\ messages' = IF r.exc = "none" THEN r.val ELSE messages
    /\ pc' = "parsed"
    /\ UNCHANGED <<text, query_vars, other_vars>>

\* user_facing = parser.extract_user_facing(messages)
ExtractUserFacing ==
    /\ pc = "parsed"
    /\ raised = "none"
    /\ user_facing' = extract_user_facing(messages)
    /\ pc' = "user_facing"
    /\ UNCHANGED <<other_vars, text, messages, raised, reasoning, extracted_tool_calls,
                   display_without, display_with>>

\* reasoning = parser.extract_reasoning(messages)
ExtractReasoning ==
    /\ pc = "user_facing"
    /\ reasoning' = extract_reasoning(messages)
    /\ pc' = "reasoning"
    /\ UNCHANGED <<other_vars, text, messages, raised, user_facing, extracted_tool_calls,
                   display_without, display_with>>

\* tool_calls = parser.extract_tool_calls(messages)
ExtractToolCalls ==
    /\ pc = "reasoning"
    /\ extracted_tool_calls' = extract_tool_calls(messages)
    /\ pc' = "tool_calls"
    /\ UNCHANGED <<other_vars, text, messages, raised, user_facing, reasoning,
                   display_without, display_with>>

\* display_without = parser.format_for_display(messages, include_reasoning=False)
FormatWithoutReasoning ==
    /\ pc = "tool_calls"
    /\ display_without' = format_for_display(messages, FALSE)
    /\ pc' = "display_without"
    /\ UNCHANGED <<other_vars, text, messages, raised, user_facing, reasoning,
                   extracted_tool_calls, display_with>>

\* display_with = parser.format_for_display(messages, include_reasoning=True)
FormatWithReasoning ==
    /\ pc = "display_without"
    /\ display_with' = format_for_display(messages, TRUE)
    /\ pc' = "display_with"
    /\ UNCHANGED <<other_vars, text, messages, raised, user_facing, reasoning,
                   extracted_tool_calls, display_without>>

Next ==
    \/ ParseConversation
    \/ ExtractUserFacing
    \/ ExtractReasoning
    \/ ExtractToolCalls
    \/ FormatWithoutReasoning
    \/ FormatWithReasoning

Spec == Init /\ [][Next]_vars

-----------------------------------------------------------------------------
(* The state machine of the shared instance: two callers call              *)
(* parse_conversation on it, again and again, and their loops interleave   *)
(* iteration by iteration.                                                 *)

SharedInit ==
    /\ text = <<>>
    /\ pc = "shared"
    /\ messages = <<>>
    /\ raised = "none"
    /\ user_facing = <<>>
    /\ reasoning = <<>>
    /\ extracted_tool_calls = <<>>
    /\ display_without = <<>>
    /\ display_with = <<>>
    /\ NoCalls
    /\ NoClient

\* caller c enters parse_conversation(t): messages = [] and the iterator
Call(c, t) ==
    /\ in_progress[c].pc \in {"idle", "returned"}
    /\ started < MaxCalls
    /\ in_progress' = [MarkInterleaved(c) EXCEPT ![c] =
                    [pc |-> "running", text |-> t,
                     matches |-> SharedMatches[t], result |-> <<>>,
                     raised |-> "none", interleaved |-> FALSE,
                     earlier |-> started]]
    /\ frames' = [frames EXCEPT ![Frame(c)] = <<>>]
    /\ started' = started + 1
    /\ UNCHANGED <<parser_vars, client_vars>>

\* one iteration of the loop of caller c
Iterate(c) ==
    /\ in_progress[c].pc = "running"
    /\ in_progress[c].matches # <<>>
    /\ LET match == Head(in_progress[c].matches)
           exc == IterationRaises(match)
       IN /\ in_progress' = [MarkInterleaved(c) EXCEPT ![c] =
                 IF exc = "none"
                 THEN [in_progress[c] EXCEPT !.matches = Tail(in_progress[c].matches)]
                 ELSE [in_progress[c] EXCEPT !.pc = "returned", !.raised = exc]]
          /\ frames' = [frames EXCEPT ![Frame(c)] = Iteration(match, frames[Frame(c)])]
    /\ UNCHANGED <<started, parser_vars, client_vars>>

\* return messages
Return(c) ==
    /\ in_progress[c].pc = "running"
    /\ in_progress[c].matches = <<>>
    /\ in_progress' = [MarkInterleaved(c) EXCEPT ![c] =
                    [in_progress[c] EXCEPT !.pc = "returned",
                                     !.result = frames[Frame(c)]]]
    /\ UNCHANGED <<frames, started, parser_vars, client_vars>>

SharedNext ==
    \/ \E c \in Callers, t \in SharedTexts : Call(c, t)
    \/ \E c \in Callers : Iterate(c)
    \/ \E c \in Callers : Return(c)

SharedSpec == SharedInit /\ [][SharedNext]_vars

-----------------------------------------------------------------------------------------------------------------------------------------------------
(* The state machine of the chat client.                                   *)

ClientInit ==
    /\ text = <<>>
    /\ pc = "client"
    /\ messages = <<>>
    /\ raised = "none"
    /\ user_facing = <<>>
    /\ reasoning = <<>>
    /\ extracted_tool_calls = <<>>
    /\ display_without = <<>>
    /\ display_with = <<>>
    /\ NoCalls
    /\ client_pc = "prompt"
    /\ harmony_mode \in BOOLEAN
    /\ harmony_available \in BOOLEAN
    /\ response = <<>>
    /\ read = 0
    /\ assistant_response = <<>>
    /\ parser_calls = <<>>
    /\ client_messages = <<>>
    /\ turn = 0
    /\ conversation_history = <<>>
    /\ request_in_process = FALSE
    /\ initial_connection \in BOOLEAN
    /\ sleep_interval = 0
    /\ total_time_slept = 0

\* default with a line other than /bye and exit: the user entry is appended,
\* request_in_process is set and _req starts with i = 0.01 and nothing slept
Default ==
    /\ client_pc = "prompt"
    /\ turn < MaxTurns
    /\ conversation_history' = Append(conversation_history, "user")
    /\ request_in_process' = TRUE
    /\ sleep_interval' = FIRST_INTERVAL
    /\ total_time_slept' = 0
    /\ client_pc' = "connecting"
    /\ UNCHANGED <<harmony_mode, harmony_available, response, read,
                   assistant_response, parser_calls, client_messages, turn,
                   initial_connection, parser_vars, shared_vars>>

\* default: /bye or exit ends the shell
Bye ==
    /\ client_pc = "prompt"
    /\ client_pc' = "bye"
    /\ UNCHANGED <<harmony_mode, harmony_available, response, read,
                   assistant_response, parser_calls, client_messages, turn,
                   conversation_history, request_in_process,
                   initial_connection, sleep_interval, total_time_slept,
                   parser_vars, shared_vars>>

\* an iteration of the retry loop in which urlopen raises and the time slept
\* is within max_timeout: the loop sleeps i and doubles i up to the cap
Refused ==
    /\ client_pc = "connecting"
    /\ ~(total_time_slept > max_timeout(initial_connection))
    /\ total_time_slept' = total_time_slept + sleep_interval
    /\ sleep_interval' = NextInterval(sleep_interval)
    /\ UNCHANGED <<client_pc, harmony_mode, harmony_available, response, read,
                   assistant_response, parser_calls, client_messages, turn,
                   conversation_history, request_in_process,
                   initial_connection, parser_vars, shared_vars>>

\* an iteration in which urlopen raises and more than max_timeout was slept:
\* the loop breaks, _req returns None, res is not called and default ends
\* the shell
NoConnection ==
    /\ client_pc = "connecting"
    /\ total_time_slept > max_timeout(initial_connection)
    /\ client_pc' = "no_connection"
    /\ UNCHANGED <<harmony_mode, harmony_available, response, read,
                   assistant_response, parser_calls, client_messages, turn,
                   conversation_history, request_in_process,
                   initial_connection, sleep_interval, total_time_slept,
                   parser_vars, shared_vars>>

\* an iteration in which urlopen returns a response: the loop breaks and
\* its locals are not read again
Connected ==
    /\ client_pc = "connecting"
    /\ client_pc' = "connected"
    /\ sleep_interval' = 0
    /\ total_time_slept' = 0
    /\ UNCHANGED <<harmony_mode, harmony_available, response, read,
                   assistant_response, parser_calls, client_messages, turn,
                   conversation_history, request_in_process,
                   initial_connection, parser_vars, shared_vars>>

\* _req hands the response to res; the server streams the lines r, and res
\* starts with an empty assistant_response
Request(r) ==
    /\ client_pc = "connected"
    /\ response' = r
    /\ read' = 0
    /\ assistant_response' = <<>>
    /\ parser_calls' = <<>>
    /\ client_messages' = <<>>
    /\ client_pc' = "streaming"
    /\ UNCHANGED <<harmony_mode, harmony_available, turn,
                   conversation_history, request_in_process,
                   initial_connection, sleep_interval, total_time_slept,
                   parser_vars, shared_vars>>

\* one iteration of for line in response
ReadLine ==
    /\ client_pc = "streaming"
    /\ read < Len(response)
    /\ read' = read + 1
    /\ IF response[read + 1].kind = "malformed"
       THEN /\ client_pc' = "crashed"
            /\ UNCHANGED assistant_response
       ELSE /\ assistant_response' = assistant_response \o Accepted(response[read + 1])
            /\ UNCHANGED client_pc
    /\ UNCHANGED <<harmony_mode, harmony_available, response, parser_calls,
                   client_messages, turn, conversation_history,
                   request_in_process, initial_connection, sleep_interval,
                   total_time_slept, parser_vars, shared_vars>>

\* the locals of res and _req are gone once the turn is over
TurnOver ==
    /\ response' = <<>>
    /\ read' = 0
    /\ assistant_response' = <<>>
    /\ parser_calls' = <<>>
    /\ client_messages' = <<>>
    /\ sleep_interval' = 0
    /\ total_time_slept' = 0
    /\ turn' = turn + 1

\* Ctrl-C while _req retries or res reads: default is left by the
\* exception, loop catches KeyboardInterrupt, clears request_in_process and
\* enters cmdloop again
KeyboardInterrupt ==
    /\ client_pc \in {"connecting", "connected", "streaming"}
    /\ client_pc' = "prompt"
    /\ request_in_process' = FALSE
    /\ TurnOver
    /\ UNCHANGED <<harmony_mode, harmony_available, conversation_history,
                   initial_connection, parser_vars, shared_vars>>

\* the end of the stream: the harmony block of res
EndOfStream ==
    /\ client_pc = "streaming"
    /\ read = Len(response)
    /\ IF ParserInvoked(harmony_mode, harmony_available, assistant_response)
       THEN /\ parser_calls' = Append(parser_calls, assistant_response)
            /\ client_messages' = MessagesOrNone(parse_conversation(assistant_response))
       ELSE UNCHANGED <<parser_calls, client_messages>>
    /\ client_pc' = "responded"
    /\ UNCHANGED <<harmony_mode, harmony_available, response, read,
                   assistant_response, turn, conversation_history,
                   request_in_process, initial_connection, sleep_interval,
                   total_time_slept, parser_vars, shared_vars>>

\* res returns assistant_response: if it is empty default returns True and
\* the shell ends; otherwise default appends the assistant entry, clears
\* request_in_process and the shell prompts again
Responded ==
    /\ client_pc = "responded"
    /\ IF assistant_response = <<>>
       THEN /\ client_pc' = "empty_response"
            /\ UNCHANGED <<conversation_history, request_in_process>>
       ELSE /\ client_pc' = "prompt"
            /\ conversation_history' = Append(conversation_history, "assistant")
            /\ request_in_process' = FALSE
    /\ TurnOver
    /\ UNCHANGED <<harmony_mode, harmony_available, initial_connection,
                   parser_vars, shared_vars>>

\* an iteration of the retry loop of _req
Attempt == Refused \/ NoConnection \/ Connected

ClientNext ==
    \/ Default
    \/ Bye
    \/ Refused
    \/ NoConnection
    \/ Connected
    \/ \E r \in Responses : Request(r)
    \/ ReadLine
    \/ KeyboardInterrupt
    \/ EndOfStream
    \/ Responded

ClientSpec == ClientInit /\ [][ClientNext]_vars

\* the retry loop is one thread of control that does nothing but iterate:
\* while it is in the loop, an iteration is eventually taken
ClientFairSpec == ClientSpec /\ WF_vars(Attempt)

-----------------------------------------------------------------------------
(* Reference notions the properties are stated with.  They are written     *)
(* from the input grammar, not from the parser's operators.                *)

\* the elements of a set of integers in increasing order
RECURSIVE Sorted(_)
Sorted(S) == IF S = {} THEN <<>> ELSE <<Min(S)>> \o Sorted(S \ {Min(S)})

\* the first position at or after i that holds atom a, or 0
NextAtom(c, i, a) ==
    LET at == {j \in i..Len(c) : c[j] = a}
    IN IF at = {} THEN 0 ELSE Min(at)

\* s without its leading and trailing whitespace
RECURSIVE RefTrim(_)
RefTrim(s) ==
    IF s = <<>> THEN s
    ELSE IF IsSpace(Head(s)) THEN RefTrim(Tail(s))
    ELSE IF IsSpace(s[Len(s)]) THEN RefTrim(SubSeq(s, 1, Len(s) - 1))
    ELSE s

\* s with every run of whitespace replaced by one space
RefCollapse(s) ==
    LET keep == Sorted({i \in 1..Len(s) : ~(IsSpace(s[i]) /\ i > 1 /\ IsSpace(s[i - 1]))})
    IN [k \in 1..Len(keep) |-> IF IsSpace(s[keep[k]]) THEN " " ELSE s[keep[k]]]

\* two spellings of one word that differ in letter case only
CaseVariants == {<<"USER", "user">>, <<"Tool", "tool">>,
                 <<"FINAL", "final">>, <<"Analysis", "analysis">>}

SameIgnoringCase(a, b) == a = b \/ <<a, b>> \in CaseVariants \/ <<b, a>> \in CaseVariants

\* the word of a header attribute: the word run that follows the leftmost
\* "key:" a word follows, <<>> when the header has none
RefAttrWord(h, key) ==
    LET at == {i \in 1..(Len(h) - 2) : h[i] = key /\ h[i + 1] = ":" /\ IsWord(h[i + 2])}
    IN IF at = {} THEN <<>>
       ELSE SubSeq(h, Min(at) + 2, RunEnd(h, Min(at) + 2, "\\w"))

\* the word names a role, whatever its letter case
ValidRoleWord(w) == Len(w) = 1 /\ \E r \in Roles : SameIgnoringCase(w[1], r)

HasValidRole(span) == ValidRoleWord(RefAttrWord(span.header, "role"))

\* the spans of the text, and those among them whose header names a role
Spans == MessageFindIter(text, 1)

GatedSpans == SelectSeq(Spans, HasValidRole)

\* the messages are those of the gated spans, one each and in order
MessagesMatchGatedSpans ==
    /\ Len(messages) = Len(GatedSpans)
    /\ \A i \in 1..Len(messages) : messages[i].raw_content = GatedSpans[i].group0

\* the content text of the span behind message i, as handed to the analyzer
ContentBehind(i) == RefTrim(GatedSpans[i].content)

HeaderBehind(i) == RefTrim(GatedSpans[i].header)

-----------------------------------------------------------------------------
(* C1                                                                      *)

-----------------------------------------------------------------------------
(* C2                                                                      *)

\* a start marker, later a message marker, later an end marker
HasTriplet(t) ==
    \E i \in 1..Len(t) :
        /\ LitAt(t, START, i)
        /\ \E j \in (i + 1)..Len(t) :
              /\ LitAt(t, MESSAGE, j)
              /\ \E k \in (j + 1)..Len(t) : LitAt(t, END, k)

\* C2: an input that contains no start marker / message marker / end marker
\* triplet in that order parses to the empty message sequence.
C2_NoTripletNoMessages == (pc = "parsed" /\ ~HasTriplet(text)) => messages = <<>>

\* a start marker with a valid header and a message marker, never closed
C2_Witness ==
    /\ pc = "parsed"
    /\ ~HasTriplet(text)
    /\ Contains(text, START \o RoleUser \o MESSAGE)
    /\ messages = <<>>

-----------------------------------------------------------------------------
(* C3                                                                      *)

-----------------------------------------------------------------------------
(* C4                                                                      *)

\* the text is <|start|>role:R<|message|>C<|end|> for a role R
IsRoleMessage(t) ==
    /\ Len(t) >= 18
    /\ LitAt(t, START, 1)
    /\ t[6] = "role" /\ t[7] = ":" /\ t[8] \in Roles
    /\ LitAt(t, MESSAGE, 9)
    /\ LitAt(t, END, Len(t) - 4)

\* its content text C
ContentOf(t) == SubSeq(t, 14, Len(t) - 5)

\* the content holds no end marker and nothing that opens a tool-call or a
\* constraint token
MarkerFree(c) == ~Contains(c, END) /\ ~Contains(c, CALL) /\ ~Contains(c, CONSTRAIN)

\* C4 as stated: for every role R and every content text C, parsing
\* <|start|>role:R<|message|>C<|end|> yields exactly one message with role R,
\* content equal to C trimmed, no tool calls and no constraints.
C4_AsStated ==
    (pc = "parsed" /\ IsRoleMessage(text)) =>
        /\ Len(messages) = 1
        /\ messages[1].role = text[8]
        /\ messages[1].content = RefTrim(ContentOf(text))
        /\ messages[1].tool_calls = <<>>
        /\ messages[1].constraints = <<>>

\* C4 (amended): for every role R and every content text C that holds no end,
\* call or constrain marker, parsing <|start|>role:R<|message|>C<|end|> yields
\* exactly one message with role R, content equal to C with every run of
\* whitespace collapsed to one space and then trimmed, no tool calls and no
\* constraints.
C4_RoleMessage ==
    (pc = "parsed" /\ IsRoleMessage(text) /\ MarkerFree(ContentOf(text))) =>
        /\ Len(messages) = 1
        /\ messages[1].role = text[8]
        /\ messages[1].content = RefTrim(RefCollapse(ContentOf(text)))
        /\ messages[1].tool_calls = <<>>
        /\ messages[1].constraints = <<>>

\* a marker-free content whose inner whitespace the parser rewrote
C4_Witness ==
    /\ pc = "parsed"
    /\ IsRoleMessage(text)
    /\ MarkerFree(ContentOf(text))
    /\ Len(messages) = 1
    /\ messages[1].content # <<>>
    /\ messages[1].content # RefTrim(ContentOf(text))

-----------------------------------------------------------------------------
(* C5                                                                      *)

\* The tool-call tokens of a content, left to right: a call marker, a NAME of
\* one or more characters other than "<", "<|", a PAYLOAD of one or more
\* characters other than "<" that ends at the first "|>", and that "|>".  A
\* token starts only after the end of the token before it.
RECURSIVE RefToolTokens(_, _)
RefToolTokens(c, pos) ==
    IF pos > Len(c) THEN <<>>
    ELSE IF ~LitAt(c, CALL, pos) THEN RefToolTokens(c, pos + 1)
    ELSE LET a == NextAtom(c, pos + 5, "<")
             closes == {e \in (a + 3)..(Len(c) - 1) : c[e] = "|" /\ c[e + 1] = ">"}
             lt == NextAtom(c, a + 2, "<")
         IN IF \/ a = 0 \/ a = pos + 5
               \/ ~LitAt(c, <<"<", "|">>, a)
               \/ closes = {}
               \/ (lt # 0 /\ lt < Min(closes))
            THEN RefToolTokens(c, pos + 1)
            ELSE <<[name |-> SubSeq(c, pos + 5, a - 1),
                    payload |-> SubSeq(c, a + 2, Min(closes) - 1)]>>
                 \o RefToolTokens(c, Min(closes) + 2)

\* C5: tool calls are never dropped and never reordered: the N tool-call
\* tokens of a message's content yield exactly N tool-call records, the j-th
\* record naming the j-th token, whatever the payloads are.
C5_ToolCallsKept ==
    pc = "parsed" =>
        /\ MessagesMatchGatedSpans
        /\ \A i \in 1..Len(messages) :
              LET toks == RefToolTokens(ContentBehind(i), 1)
                  calls == messages[i].tool_calls
              IN /\ Len(calls) = Len(toks)
                 /\ \A j \in 1..Len(calls) : calls[j].name = RefTrim(toks[j].name)

\* two tool calls in one message, the second with a payload that fails to
\* decode
C5_Witness ==
    /\ pc = "parsed"
    /\ Len(messages) = 1
    /\ Len(messages[1].tool_calls) = 2
    /\ messages[1].tool_calls[1].name = <<"n">>
    /\ messages[1].tool_calls[2].name = <<"x">>
    /\ messages[1].tool_calls[2].parameters = RawParameters(<<"{", "k", "}">>)

-----------------------------------------------------------------------------
(* C6                                                                      *)

\* the payload is valid structured (JSON) data
ValidStructured(p) == JsonLoads(p).exc = "none"

\* the payload holds at least one key=value pair
ValidKeyValue(p) == \E e \in 1..Len(p) : p[e] = "="

\* C6 as stated: a tool-call payload that is neither valid structured data
\* nor valid key=value pairs yields parameters {"raw": payload, trimmed}.
C6_AsStated ==
    pc = "parsed" =>
        \A i \in 1..Len(messages) :
            LET toks == RefToolTokens(ContentBehind(i), 1)
                calls == messages[i].tool_calls
            IN \A j \in 1..Len(calls) :
                  LET p == RefTrim(toks[j].payload)
                  IN (~ValidStructured(p) /\ ~ValidKeyValue(p)) =>
                        calls[j].parameters = RawParameters(p)

-----------------------------------------------------------------------------
(* C7                                                                      *)

\* C7 as stated: the content of a returned message never contains a literal
\* delimiter token.
C7_AsStated ==
    \A i \in 1..Len(messages) :
        \A tok \in SpecialTokens : ~Contains(messages[i].content, tok)

-----------------------------------------------------------------------------
(* C8                                                                      *)

\* the positions of c inside a tool-call or constraint token that was
\* extracted from c
ExtractedPositions(c) ==
    LET tc == ToolCallFindIter(c, 1)
        cs == ConstraintFindIter(c, 1)
    IN UNION ({tc[n].start..(tc[n].next - 1) : n \in 1..Len(tc)}
              \cup {cs[n].start..(cs[n].next - 1) : n \in 1..Len(cs)})

\* the atoms of c at the positions ps, in order
AtomsAt(c, ps) == LET o == Sorted(ps) IN [k \in 1..Len(o) |-> c[o[k]]]

NonSpace(c) == SelectSeq(c, LAMBDA a : ~IsSpace(a))

\* a is b with some atoms left out
RECURSIVE IsSubsequence(_, _)
IsSubsequence(a, b) ==
    IF a = <<>> THEN TRUE
    ELSE IF b = <<>> THEN FALSE
    ELSE IF Head(a) = Head(b) THEN IsSubsequence(Tail(a), Tail(b))
    ELSE IsSubsequence(a, Tail(b))

\* C8 as stated: no extracted tool-call or constraint token, nor a part of
\* one, survives in the cleaned content: what is left of the content text is
\* made of the characters outside the extracted tokens only, also when the
\* tokens are adjacent or overlap.
C8_AsStated ==
    pc = "parsed" =>
        \A i \in 1..Len(messages) :
            LET c == ContentBehind(i)
                outside == AtomsAt(c, (1..Len(c)) \ ExtractedPositions(c))
            IN IsSubsequence(NonSpace(messages[i].content), NonSpace(outside))

-----------------------------------------------------------------------------
(* C9                                                                      *)

\* The constraint tokens of a content: a constrain marker, a TEXT of one or
\* more characters other than "<", and the return marker.
RefConstraintStarts(c) ==
    {i \in 1..Len(c) :
        /\ LitAt(c, CONSTRAIN, i)
        /\ NextAtom(c, i + 5, "<") > i + 5
        /\ LitAt(c, RETURN, NextAtom(c, i + 5, "<"))}

RefConstraintTexts(c) ==
    LET at == Sorted(RefConstraintStarts(c))
    IN [k \in 1..Len(at) |-> SubSeq(c, at[k] + 5, NextAtom(c, at[k] + 5, "<") - 1)]

\* C9: constraint tokens are extracted completely and in order: the k
\* constraint tokens of a message's content yield a constraints list of
\* length k whose i-th element is the trimmed TEXT of the i-th token.
C9_ConstraintsKept ==
    pc = "parsed" =>
        /\ MessagesMatchGatedSpans
        /\ \A i \in 1..Len(messages) :
              LET texts == RefConstraintTexts(ContentBehind(i))
              IN messages[i].constraints = [k \in 1..Len(texts) |-> RefTrim(texts[k])]

\* two constraints in one message, the second trimmed
C9_Witness ==
    /\ pc = "parsed"
    /\ Len(messages) = 1
    /\ messages[1].constraints = << <<"x">>, <<"y">> >>

-----------------------------------------------------------------------------
(* C10                                                                     *)

\* C10 as stated: a header whose channel word is not one of final, analysis,
\* commentary still produces a message (when the role is valid) with channel
\* None; a header whose channel word is in the set produces a message with
\* exactly that channel.
C10_AsStated ==
    pc = "parsed" =>
        /\ MessagesMatchGatedSpans
        /\ \A i \in 1..Len(messages) :
              LET w == RefAttrWord(HeaderBehind(i), "channel")
                  known == Len(w) = 1 /\ w[1] \in Channels
              IN /\ (w # <<>> /\ ~known) => messages[i].channel = "None"
                 /\ known => messages[i].channel = w[1]

\* C10 (amended): a header whose channel word is, ignoring letter case, not
\* one of final, analysis, commentary still produces a message (when the role
\* is valid) with channel None; a header whose channel word is, ignoring
\* letter case, in the set produces a message with exactly that channel.
C10_ChannelGate ==
    pc = "parsed" =>
        /\ MessagesMatchGatedSpans
        /\ \A i \in 1..Len(messages) :
              LET w == RefAttrWord(HeaderBehind(i), "channel")
                  named == {c \in Channels : Len(w) = 1 /\ SameIgnoringCase(w[1], c)}
              IN /\ (w # <<>> /\ named = {}) => messages[i].channel = "None"
                 /\ \A c \in named : messages[i].channel = c

\* a message produced from a header with an unknown channel word
C10_Witness ==
    /\ pc = "parsed"
    /\ Len(messages) >= 1
    /\ RefAttrWord(HeaderBehind(1), "channel") = <<"bogus">>
    /\ messages[1].channel = "None"

-----------------------------------------------------------------------------
(* Reference notions for the queries.                                      *)

\* the queries have run on the parsed messages
AfterQueries == pc = "display_with"

\* the messages at the increasing positions ps
MessagesAt(ps) == LET o == Sorted(ps) IN [k \in 1..Len(o) |-> messages[o[k]]]

OnAnalysis(m) == m.channel = "analysis"

\* not a tool message, and on the final channel or on none
ForTheUser(m) == m.role # "tool" /\ (m.channel = "final" \/ m.channel = "None")

-----------------------------------------------------------------------------
(* C11                                                                     *)

\* C11: for every message, is_reasoning is true iff the channel is analysis,
\* and is_user_facing is true iff the role is not tool and the channel is
\* final or absent; a tool message is never user-facing, whatever its
\* channel.
C11_Predicates ==
    \A i \in 1..Len(messages) :
        /\ is_reasoning(messages[i]) <=> OnAnalysis(messages[i])
        /\ is_user_facing(messages[i]) <=> ForTheUser(messages[i])
        /\ messages[i].role = "tool" => ~is_user_facing(messages[i])

\* a tool message on the final channel that extract_user_facing left out
C11_Witness ==
    /\ AfterQueries
    /\ Len(messages) = 1
    /\ messages[1].role = "tool"
    /\ messages[1].channel = "final"
    /\ user_facing = <<>>

-----------------------------------------------------------------------------
(* C12                                                                     *)

\* C12: no message satisfies both is_reasoning and is_user_facing, so the
\* results of extract_reasoning and extract_user_facing on the same
\* messages share no message.
C12_Exclusive ==
    /\ \A i \in 1..Len(messages) :
          ~(is_reasoning(messages[i]) /\ is_user_facing(messages[i]))
    /\ AfterQueries =>
          \A i \in 1..Len(reasoning) : \A j \in 1..Len(user_facing) :
              reasoning[i] # user_facing[j]

\* both results hold a message
C12_Witness ==
    /\ AfterQueries
    /\ reasoning # <<>>
    /\ user_facing # <<>>

-----------------------------------------------------------------------------
(* C13                                                                     *)

\* C13: extract_reasoning and extract_user_facing return exactly the
\* messages that satisfy is_reasoning (respectively is_user_facing), each
\* once and in the original order.
C13_Filters ==
    AfterQueries =>
        /\ reasoning = MessagesAt({i \in 1..Len(messages) : OnAnalysis(messages[i])})
        /\ user_facing = MessagesAt({i \in 1..Len(messages) : ForTheUser(messages[i])})

\* a reasoning message kept although the message before it was not
C13_Witness ==
    /\ AfterQueries
    /\ Len(messages) = 3
    /\ ~OnAnalysis(messages[1])
    /\ OnAnalysis(messages[2])
    /\ ForTheUser(messages[3])
    /\ Len(reasoning) = 1
    /\ Len(user_facing) = 2

-----------------------------------------------------------------------------
(* C14                                                                     *)

\* the number of tool calls of the messages before message i
RECURSIVE CallsBefore(_)
CallsBefore(i) ==
    IF i <= 1 THEN 0 ELSE CallsBefore(i - 1) + Len(messages[i - 1].tool_calls)

\* C14: extract_tool_calls returns one record per tool call of every
\* message, by message order and then by tool-call order, each record
\* carrying the role and the channel (None when absent) of its message, the
\* tool name and the parameters.
C14_ToolCallRecords ==
    AfterQueries =>
        /\ Len(extracted_tool_calls) = CallsBefore(Len(messages) + 1)
        /\ \A i \in 1..Len(messages) : \A j \in 1..Len(messages[i].tool_calls) :
              extracted_tool_calls[CallsBefore(i) + j] =
                  [message_role |-> messages[i].role,
                   message_channel |-> messages[i].channel,
                   tool_name |-> messages[i].tool_calls[j].name,
                   parameters |-> messages[i].tool_calls[j].parameters]

\* three records from two messages, the second message with two tool calls
C14_Witness ==
    /\ AfterQueries
    /\ Len(messages) = 2
    /\ Len(messages[1].tool_calls) = 1
    /\ Len(messages[2].tool_calls) = 2
    /\ Len(extracted_tool_calls) = 3
    /\ extracted_tool_calls[1].message_channel = "final"
    /\ extracted_tool_calls[3].tool_name = <<"x">>

-----------------------------------------------------------------------------
(* C15                                                                     *)

\* the rendering of the messages msgs, all of them, one after the other
RefRender(msgs) ==
    Join(<<"\n", "\n">>, Flatten([i \in 1..Len(msgs) |-> MessageLines(msgs[i])]))

\* C15: with include_reasoning false format_for_display renders no line for
\* a reasoning message and renders every other message, in the original
\* order; with include_reasoning true it renders every message in order.
C15_ReasoningSkipped ==
    AfterQueries =>
        /\ display_without =
              RefRender(MessagesAt({i \in 1..Len(messages) : ~OnAnalysis(messages[i])}))
        /\ display_with = RefRender(messages)

\* a reasoning message between two others, rendered only when asked for
C15_Witness ==
    /\ AfterQueries
    /\ Len(messages) = 3
    /\ ~OnAnalysis(messages[1])
    /\ OnAnalysis(messages[2])
    /\ ~OnAnalysis(messages[3])
    /\ display_without # <<>>
    /\ display_without # display_with

-----------------------------------------------------------------------------
(* C16                                                                     *)

\* C16: the text format_for_display produces with include_reasoning true is
\* at least as long as the text it produces with include_reasoning false.
C16_WithIsLonger == AfterQueries => StrLen(display_with) >= StrLen(display_without)

\* the text with reasoning is strictly longer
C16_Witness ==
    /\ AfterQueries
    /\ display_without # <<>>
    /\ StrLen(display_with) > StrLen(display_without)

-----------------------------------------------------------------------------
(* C18                                                                     *)

\* the messages as _parse_single_message built them for the spans of the
\* text t that pass the role gate
BuiltMessages(t) ==
    LET spans == SelectSeq(MessageFindIter(t, 1), HasValidRole)
    IN [i \in 1..Len(spans) |->
           _parse_single_message(RefTrim(spans[i].header), RefTrim(spans[i].content)).val.val]

\* the message m with its raw_content set to raw
WithRawContent(m, raw) == [m EXCEPT !.raw_content = raw]

\* C18 as stated: once _parse_single_message has built a message, neither
\* parse_conversation nor a query or formatting operation changes any of its
\* fields.
C18_AsStated ==
    [][/\ pc = "start" => messages' = BuiltMessages(text)
       /\ pc # "start" => messages' = messages]_vars

\* C18 (amended): parse_conversation changes one field of a message that
\* _parse_single_message has built, raw_content, which it sets once to the
\* text of the span before it appends the message; after parse_conversation
\* has returned, no query or formatting operation (extract_reasoning,
\* extract_user_facing, extract_tool_calls, format_for_display) changes any
\* field of any message.
C18_Frame ==
    [][/\ pc = "start" =>
             /\ Len(messages') = Len(BuiltMessages(text))
             /\ \A i \in 1..Len(messages') :
                   /\ BuiltMessages(text)[i].raw_content = <<>>
                   /\ messages'[i].raw_content = GatedSpans[i].group0
                   /\ messages'[i] = WithRawContent(BuiltMessages(text)[i],
                                                    GatedSpans[i].group0)
       /\ pc # "start" => messages' = messages]_vars

\* all the queries have run on two messages that carry the text of their
\* spans
C18_Witness ==
    /\ AfterQueries
    /\ Len(messages) = 2
    /\ messages[1].raw_content # <<>>
    /\ messages[2].raw_content # messages[1].raw_content
    /\ extracted_tool_calls # <<>>
    /\ display_with # <<>>

-----------------------------------------------------------------------------
(* C19                                                                     *)

\* C19: the parameters of every recorded tool call is a mapping, on every
\* decode path: object decode, quoted-string decode, key=value decode and
\* raw fallback.
C19_ParametersMapping ==
    \A i \in 1..Len(messages) : \A j \in 1..Len(messages[i].tool_calls) :
        messages[i].tool_calls[j].parameters.t = "obj"

\* a quoted payload that decodes to a string, stored under the key value
C19_Witness ==
    /\ pc = "parsed"
    /\ Len(messages) = 1
    /\ Len(messages[1].tool_calls) = 1
    /\ Len(messages[1].tool_calls[1].parameters.o) = 1
    /\ messages[1].tool_calls[1].parameters.o[1].k = <<"value">>
    /\ messages[1].tool_calls[1].parameters.o[1].v.t = "str"


\* what parse_conversation returns for each text when nothing else runs
ParsedAlone == [t \in SharedTexts |-> parse_conversation(t)]

\* C17: a call of parse_conversation on a shared parser returns what the
\* text alone determines, whatever calls ran earlier on the instance or
\* interleave with it: every returned result is the result of parsing the
\* caller's own text in isolation.
C17_NoHiddenState ==
    \A c \in Callers :
        in_progress[c].pc = "returned" =>
            /\ in_progress[c].raised = "none"
            /\ in_progress[c].result = ParsedAlone[in_progress[c].text].val

\* a call that began after an earlier call, ran interleaved with another
\* caller's loop and returned two messages, while the other caller is in
\* the middle of its own loop on a different text
C17_Witness ==
    /\ in_progress[1].pc = "returned"
    /\ in_progress[1].interleaved
    /\ in_progress[1].earlier > 0
    /\ Len(in_progress[1].result) = 2
    /\ in_progress[2].pc = "running"
    /\ in_progress[2].interleaved
    /\ in_progress[2].text # in_progress[1].text
    /\ Len(in_progress[2].matches) = 1
    /\ Len(SharedMatches[in_progress[2].text]) = 2


\* the text of a whole response: the non-empty contents of its deltas, in
\* the order of the lines
RECURSIVE ResponseText(_)
ResponseText(r) ==
    IF r = <<>> THEN <<>>
    ELSE (IF Head(r).has_content THEN Head(r).content ELSE <<>>) \o ResponseText(Tail(r))

\* C20: in every turn of the chat client the parser is invoked at most
\* once, only when every line of the response has been read, and with the
\* whole accumulated text of the response; it is not invoked when harmony
\* mode is off or when that text is empty.
C20_ParsedOncePerTurn ==
    /\ Len(parser_calls) <= 1
    /\ parser_calls # <<>> =>
        /\ read = Len(response)
        /\ parser_calls[1] = ResponseText(response)
        /\ harmony_mode
        /\ parser_calls[1] # <<>>

\* the second turn of a client in harmony mode: a message arrived in two
\* deltas with another line between them, and the parser, called at the end
\* of the stream, returned it
C20_Witness ==
    /\ turn = 1
    /\ Len(response) = 3
    /\ response[1].content # <<>>
    /\ response[3].content = END
    /\ Len(parser_calls) = 1
    /\ Len(client_messages) = 1
    /\ client_pc = "responded"


-----------------------------------------------------------------------------
(* C21                                                                     *)

\* the header text of a text that is one span
HeaderText(t) == SubSeq(t, 6, Min({j \in 6..Len(t) : LitAt(t, MESSAGE, j)}) - 1)

\* the attributes of a header, the text between its commas
AttributesOf(h) == IF h = <<>> THEN <<>> ELSE Split(h, ",")

\* the attribute lists that are attrs in another order
Reordered(attrs) ==
    {[k \in 1..Len(attrs) |-> attrs[p[k]]] : p \in Permutations(1..Len(attrs))}

\* attributes whose key is not role, channel or recipient
ExtraAttributes == {<<"x", ":", "y">>, <<"x", "role", ":", "tool">>}

\* attrs with one more attribute at position k
WithExtra(attrs) ==
    {SubSeq(attrs, 1, k) \o <<e>> \o SubSeq(attrs, k + 1, Len(attrs)) :
        k \in 0..Len(attrs), e \in ExtraAttributes}

\* role, channel and recipient of the one message parsed, or "dropped"
Extracted(msgs) ==
    IF msgs = <<>> THEN <<"dropped">>
    ELSE <<msgs[1].role, msgs[1].channel, msgs[1].recipient>>

ExtractedFrom(attrs) ==
    Extracted(parse_conversation(Span(Join(<<",">>, attrs), <<"x">>)).val)

\* C21 as stated: the role, channel and recipient extracted from a header
\* do not change when its comma-separated key:value attributes are put in
\* another order, or when an attribute with a key other than role, channel
\* and recipient is added.
C21_AsStated ==
    (pc = "parsed" /\ text \in AttributeTexts) =>
        \A attrs \in Reordered(AttributesOf(HeaderText(text)))
                     \cup WithExtra(AttributesOf(HeaderText(text))) :
            ExtractedFrom(attrs) = Extracted(messages)


-----------------------------------------------------------------------------
(* C22                                                                     *)

\* C22 as stated: the first end marker after the start marker of a span
\* closes it: the span text of a message holds no end marker before the one
\* it ends with.
C22_AsStated ==
    \A i \in 1..Len(messages) :
        LET raw == messages[i].raw_content
        IN \A k \in 1..(Len(raw) - 5) : ~LitAt(raw, END, k)


-----------------------------------------------------------------------------
(* C23                                                                     *)

\* the payload starts with { and ends with }
BraceDelimited(p) == Len(p) >= 1 /\ p[1] = "{" /\ p[Len(p)] = "}"

\* C23 as stated: the decode strategies are a fallback chain: a payload in
\* braces that fails the strict object decode is tried by the later
\* strategies, and {"raw": payload} is the result only when every earlier
\* strategy has failed; a payload in braces that holds a key=value pair does
\* not end as raw.
C23_AsStated ==
    pc = "parsed" =>
        \A i \in 1..Len(messages) :
            LET toks == RefToolTokens(ContentBehind(i), 1)
                params == messages[i].tool_calls
            IN \A j \in 1..Len(params) :
                  LET p == RefTrim(toks[j].payload)
                  IN (BraceDelimited(p) /\ ~ValidStructured(p) /\ ValidKeyValue(p)) =>
                        params[j].parameters # RawParameters(p)


-----------------------------------------------------------------------------
(* C24                                                                     *)

\* the payload starts and ends with a quote and decodes to a string
DecodesToString(p) ==
    /\ Len(p) >= 1 /\ p[1] = "\"" /\ p[Len(p)] = "\""
    /\ JsonLoads(p).exc = "none"
    /\ JsonLoads(p).val.t = "str"

\* the parameters the quoted-string strategy is to give for the string s
RefQuotedParameters(s) ==
    IF Len(s) >= 1 /\ s[1] = "{" /\ JsonLoads(s).exc = "none" /\ JsonLoads(s).val.t = "obj"
    THEN JsonLoads(s).val
    ELSE [t |-> "obj", o |-> <<[k |-> <<"value">>, v |-> [t |-> "str", s |-> s]]>>]

\* C24 as stated: a payload in quotes that decodes to a string s gives the
\* nested object when s starts with { and decodes to an object, and
\* {"value": s} otherwise, also when s starts with { and its nested decode
\* fails.
C24_AsStated ==
    pc = "parsed" =>
        \A i \in 1..Len(messages) :
            LET toks == RefToolTokens(ContentBehind(i), 1)
                params == messages[i].tool_calls
            IN \A j \in 1..Len(params) :
                  LET p == RefTrim(toks[j].payload)
                  IN DecodesToString(p) =>
                        params[j].parameters = RefQuotedParameters(JsonLoads(p).val.s)


-----------------------------------------------------------------------------
(* C25                                                                     *)

\* the pieces of s between the atoms sep
RefPieces(s, sep) ==
    LET at == Sorted({i \in 1..Len(s) : s[i] = sep})
        from(k) == IF k = 1 THEN 1 ELSE at[k - 1] + 1
        to(k) == IF k = Len(at) + 1 THEN Len(s) ELSE at[k] - 1
    IN [k \in 1..(Len(at) + 1) |-> SubSeq(s, from(k), to(k))]

QuoteAtoms == {"\"", "'"}

\* v without one quote character at its start and one at its end, where it
\* has them
RefOneLayer(v) ==
    LET a == IF Len(v) >= 1 /\ v[1] \in QuoteAtoms THEN 2 ELSE 1
        b == IF Len(v) >= a /\ v[Len(v)] \in QuoteAtoms THEN Len(v) - 1 ELSE Len(v)
    IN SubSeq(v, a, b)

\* the key -> value mapping of the reference decode of payload p
RefKeyValue(p) ==
    LET parts == RefPieces(p, ",")
        eq(i) == NextAtom(parts[i], 1, "=")
        pairs == {i \in 1..Len(parts) : eq(i) # 0}
        key(i) == RefTrim(SubSeq(parts[i], 1, eq(i) - 1))
        value(i) == RefOneLayer(RefTrim(SubSeq(parts[i], eq(i) + 1, Len(parts[i]))))
    IN [k \in {key(i) : i \in pairs} |->
           [t |-> "str", s |-> value(Max({i \in pairs : key(i) = k}))]]

\* a dict as a mapping from its keys to their values
DictAsMap(d) ==
    [k \in {d.o[i].k : i \in 1..Len(d.o)} |->
        d.o[CHOOSE i \in 1..Len(d.o) : d.o[i].k = k].v]

\* the payload goes to the key=value strategy: it is in neither braces nor
\* quotes
KeyValuePayload(p) ==
    /\ ~(Len(p) >= 1 /\ p[1] = "{" /\ p[Len(p)] = "}")
    /\ ~(Len(p) >= 1 /\ p[1] = "\"" /\ p[Len(p)] = "\"")

\* C25 as stated: the key=value decode splits the payload on commas, splits
\* each part that holds = on its first =, removes surrounding whitespace
\* and exactly one layer of quote characters from the value, and maps key to
\* value, the last occurrence of a key winning; parts without = add nothing.
C25_AsStated ==
    pc = "parsed" =>
        \A i \in 1..Len(messages) :
            LET toks == RefToolTokens(ContentBehind(i), 1)
                params == messages[i].tool_calls
            IN \A j \in 1..Len(params) :
                  LET p == RefTrim(toks[j].payload)
                  IN KeyValuePayload(p) =>
                        DictAsMap(params[j].parameters) = RefKeyValue(p)


-----------------------------------------------------------------------------
(* C26                                                                     *)

\* C26 as stated: cleaning the content of a returned message again gives
\* that content unchanged.
C26_AsStated ==
    \A i \in 1..Len(messages) :
        _clean_content(messages[i].content) = messages[i].content


-----------------------------------------------------------------------------
(* C27                                                                     *)

\* the lines of one rendered message, each line directly after the other
RefMessageBlock(message) == Join(<<"\n">>, MessageLines(message))

\* the blocks of the messages with a blank line between consecutive blocks
RefTranscript(msgs) ==
    Join(<<"\n", "\n">>, [i \in 1..Len(msgs) |-> RefMessageBlock(msgs[i])])

\* C27 as stated: in the text of format_for_display every rendered message
\* is its header line directly followed by the lines of its tool calls, and
\* a blank line stands between consecutive messages and nowhere inside a
\* message.
C27_AsStated == AfterQueries => display_with = RefTranscript(messages)


-----------------------------------------------------------------------------
(* C28                                                                     *)

\* a history of complete exchanges: user, assistant, user, assistant, ...
Alternates(history) ==
    /\ Len(history) % 2 = 0
    /\ \A k \in 1..Len(history) :
        history[k] = IF k % 2 = 1 THEN "user" ELSE "assistant"

\* C28 as stated: whenever the shell waits for the next user input,
\* conversation_history is empty or alternates user and assistant entries,
\* starting with a user entry and ending with an assistant entry, whatever
\* the inputs, the connection outcomes and the interrupts before.
C28_AsStated == client_pc = "prompt" => Alternates(conversation_history)

-----------------------------------------------------------------------------
(* C29                                                                     *)

\* default has returned True and cmdloop has ended
ShellEnded == client_pc \in {"bye", "no_connection", "empty_response"}

\* C29 as stated: default ends the command loop only on /bye or exit or
\* when _req could not connect; a turn whose request connected and whose
\* response was read to its end does not end the shell.
C29_AsStated == ShellEnded => client_pc \in {"bye", "no_connection"}


-----------------------------------------------------------------------------
(* C30                                                                     *)

\* the number of doublings that take the first interval to the cap
DoublingsToCap ==
    CHOOSE d \in 0..LONGEST_INTERVAL :
        /\ FIRST_INTERVAL * 2^d >= LONGEST_INTERVAL
        /\ \A e \in 0..(d - 1) : FIRST_INTERVAL * 2^e < LONGEST_INTERVAL

\* the interval after k failed attempts: 0.01 doubled k times, at most 0.1
RefInterval(k) ==
    IF k >= DoublingsToCap THEN LONGEST_INTERVAL ELSE FIRST_INTERVAL * 2^k

\* the time slept in the first k failed attempts: the sum of their intervals
RefSlept(k) ==
    IF k <= DoublingsToCap
    THEN FIRST_INTERVAL * (2^k - 1)
    ELSE FIRST_INTERVAL * (2^DoublingsToCap - 1)
             + LONGEST_INTERVAL * (k - DoublingsToCap)

\* the number of sleeps after which the time slept first exceeds limit
FirstExceeding(limit) ==
    CHOOSE k \in 1..(limit + 1) :
        /\ RefSlept(k) > limit
        /\ ~(RefSlept(k - 1) > limit)

InRetryLoop == client_pc = "connecting"

\* in the loop the interval is the first interval doubled once per failure
\* so far and capped, and no sleep is started once the time slept is over
\* max_timeout
C30_Intervals ==
    InRetryLoop =>
        \E k \in 0..FirstExceeding(max_timeout(initial_connection)) :
            /\ total_time_slept = RefSlept(k)
            /\ sleep_interval = RefInterval(k)
            /\ sleep_interval <= LONGEST_INTERVAL

\* the loop gives up only when the time slept is over max_timeout, and it
\* does so after the first sleep that took it over
C30_GivesUp ==
    client_pc = "no_connection" =>
        /\ total_time_slept > max_timeout(initial_connection)
        /\ total_time_slept =
               RefSlept(FirstExceeding(max_timeout(initial_connection)))
        /\ response = <<>>

\* a successful attempt is the last one of its loop
C30_StopsAtSuccess ==
    [][client_pc = "connected" => client_pc' # "connecting"]_vars

\* C30: the retry loop of _req ends whatever the outcomes of the attempts:
\* it is left at the first successful connection; when all attempts fail
\* it is left once the time slept is over max_timeout (16 s, or 30 s with
\* initial_connection), without a response; the interval starts at 0.01 s,
\* doubles after each failure and is never over 0.1 s.
C30_RetryTerminates ==
    /\ []C30_Intervals
    /\ []C30_GivesUp
    /\ C30_StopsAtSuccess
    /\ (InRetryLoop ~> ~InRetryLoop)

\* every attempt has failed, more than thirty seconds were slept at
\* intervals that reached the cap, and _req has given up
C30_Witness ==
    /\ client_pc = "no_connection"
    /\ initial_connection
    /\ total_time_slept > TIMEOUT_INITIAL_CONNECTION * PerSecond
    /\ sleep_interval = LONGEST_INTERVAL
    /\ response = <<>>

====
